---- MODULE Spec2Model ----
(***************************************************************************)
(* Verification model of udoprog/bookvert:                                 *)
(*   - App::run, the interactive selection loop (src/src/interactive.rs)   *)
(*   - sanitize, the path-segment sanitizer (crates/audiovert/src/meta.rs) *)
(*   - the priority merge of tag items in Parts::from_path (meta.rs)       *)
(*   - Parts::append_to, the path layout (meta.rs)                         *)
(*   - Meta::tag_file, the tag transplant (meta.rs)                        *)
(* The specifications share the variables: Spec (selection loop),          *)
(* SpecSanitize (sanitize over bounded strings), SpecTags (tag merge),     *)
(* SpecPath (append_to over bounded records), SpecFile (tag_file over      *)
(* bounded tags), SpecProgress (selection loop with a user who, from some  *)
(* point on, only confirms candidates of unresolved catalogs).             *)
(***************************************************************************)
EXTENDS Integers, Sequences, FiniteSets, TLC

VARIABLES
    catalogs,       \* state.catalogs: sequence of catalogs, each its books.len()
    picked,         \* state.picked: map catalog index -> book index
    view,           \* App.view: View::Catalogs | View::Books(idx)
    catalog_index,  \* App.catalog_index
    book_index,     \* App.book_index
    scroll_x,       \* App.scroll_x
    expanded,       \* App.expanded: HashSet<usize>
    outcome,        \* "running", or the value the loop broke with: "true"/"false"
    key,            \* the key event handled last
    s,              \* sanitize: the input string, a sequence of characters
    out,            \* sanitize: the returned string
    san_pc,         \* sanitize: "call" before the call, "done" after it
    tag_head,       \* from_path: the leading items of the tag, fixed in advance
    items,          \* from_path: tag.items() iterated so far, in order
    prio,           \* from_path: the Prio accumulators of parse!, one per field
    errors,         \* from_path: the caller's error log
    parts,          \* from_path: the Option<Parts> returned
    tag_pc,         \* from_path: "start", "loop" (iterating tag.items()), "done"
    self,           \* append_to: the Parts record
    path,           \* append_to: the segments pushed onto the path, in order
    path_pc,        \* append_to: "call" before the call, "done" after it
    source_tag,     \* tag_file: self.file.primary_tag(), an Option<Tag>
    to,             \* tag_file: the target format
    existing,       \* tag_file: the tags of the probed target file, as saved
    file_pc,        \* tag_file: "call" before the call, "done" after it
    mode            \* the user at the keyboard: "free", or "confirming" once
                    \* they only work towards a pick for every catalog

appVars == <<catalogs, picked, view, catalog_index, book_index, scroll_x, expanded, outcome, key>>
sanVars == <<s, out, san_pc>>
tagVars == <<tag_head, items, prio, errors, parts, tag_pc>>
pathVars == <<self, path, path_pc>>
fileVars == <<source_tag, to, existing, file_pc>>
userVars == <<mode>>
vars == <<appVars, sanVars, tagVars, pathVars, fileVars, userVars>>

\* What each specification leaves alone
notAppVars == <<sanVars, tagVars, pathVars, fileVars, userVars>>
notSanVars == <<appVars, tagVars, pathVars, fileVars, userVars>>
notTagVars == <<appVars, sanVars, pathVars, fileVars, userVars>>
notPathVars == <<appVars, sanVars, tagVars, fileVars, userVars>>
notFileVars == <<appVars, sanVars, tagVars, pathVars, userVars>>

----------------------------------------------------------------------------
(* Bounds *)

MaxCatalogs == 2
MaxBooks == 2
\* the number of right-scroll steps followed (scroll_x is a saturating u16)
MaxScroll == 1
\* the longest string sanitize is applied to
MaxLen == 3
\* the number of freely chosen items of a tag
MaxItems == 3

----------------------------------------------------------------------------
(* Integer helpers of the Rust standard library *)

SaturatingSub(a, b) == IF a > b THEN a - b ELSE 0

\* u16::MAX, where saturating_add stops
U16Max == 65535

Min(a, b) == IF a < b THEN a ELSE b

\* Option<T>: None is the empty sequence, Some(x) the sequence holding x
None == <<>>

Some(x) == <<x>>

IsSome(o) == o # <<>>

Unwrap(o) == o[1]

----------------------------------------------------------------------------
(* The selection loop: App::run *)

ViewCatalogs == [kind |-> "Catalogs"]

ViewBooks(i) == [kind |-> "Books", idx |-> i]

\* state.catalogs.len()
CatalogsLen == Len(catalogs)

\* state.catalogs.get(i).is_some()
CatalogsGet(i) == i < Len(catalogs)

\* state.catalogs[i].books.len(), i a 0-based index
BooksLen(i) == catalogs[i + 1]

\* state.picked.get(&i).copied().unwrap_or(0)
PickedOrZero(i) == IF i \in DOMAIN picked THEN picked[i] ELSE 0

\* state.picked.insert(k, v) on the map p
PickedInsert(p, k, v) == [x \in (DOMAIN p) \cup {k} |-> IF x = k THEN v ELSE p[x]]

\* state.next_unpicked(): the first catalog without an entry in the pick table
NextUnpicked(p, cats) ==
    LET unpicked == {i \in 0..(Len(cats) - 1) : i \notin DOMAIN p}
    IN  IF unpicked = {} THEN None
        ELSE Some(CHOOSE i \in unpicked : \A j \in unpicked : i <= j)

\* Every map from a subset of the catalogs to a valid book index of each
ValidPicks(cats) ==
    UNION {[d -> 0..(MaxBooks - 1)] : d \in SUBSET (0..(Len(cats) - 1))}

PickedValid(p, cats) ==
    \A i \in DOMAIN p : i < Len(cats) /\ p[i] < cats[i + 1]

CatalogSets == UNION {[1..n -> 0..MaxBooks] : n \in 0..MaxCatalogs}

\* The state when the loop is entered: App as left by Default or by an
\* earlier run, after the resets of lines 34-40.
AppInit ==
    /\ catalogs \in CatalogSets
    /\ picked \in {p \in ValidPicks(catalogs) : PickedValid(p, catalogs)}
    /\ view = ViewCatalogs
    /\ \E prev \in 0..MaxCatalogs :
          catalog_index = Min(prev, SaturatingSub(Len(catalogs), 1))
    /\ book_index = 0
    /\ scroll_x = 0
    /\ expanded = {}
    /\ outcome = "running"
    /\ key = "none"

AppIdle ==
    /\ catalogs = <<>>
    /\ picked = <<>>
    /\ view = ViewCatalogs
    /\ catalog_index = 0
    /\ book_index = 0
    /\ scroll_x = 0
    /\ expanded = {}
    /\ outcome = "idle"
    /\ key = "none"

\* EnterBooks without the lookup of the recorded pick
EnterBooksAtZero ==
    /\ view' = ViewBooks(catalog_index)
    /\ book_index' = 0

\* View::Catalogs => { self.view = View::Books(self.catalog_index); ... }
EnterBooks ==
    /\ view' = ViewBooks(catalog_index)
    /\ book_index' = PickedOrZero(catalog_index)

\* View::Books(_) => { view = Catalogs; book_index = 0; expanded.clear() }
BackToCatalogs ==
    /\ view' = ViewCatalogs
    /\ book_index' = 0
    /\ expanded' = {}

KeyUp ==
    /\ outcome = "running"
    /\ key' = "Up"
    /\ IF view.kind = "Catalogs"
       THEN /\ catalog_index' = SaturatingSub(catalog_index, 1)
            /\ UNCHANGED book_index
       ELSE /\ book_index' = SaturatingSub(book_index, 1)
            /\ UNCHANGED catalog_index
    /\ UNCHANGED <<catalogs, picked, view, scroll_x, expanded, outcome>>

\* KeyDown leaving the candidate list from its last candidate for the first
\* catalog with a pick
KeyDownWraps ==
    /\ outcome = "running"
    /\ key' = "Down"
    /\ IF view.kind = "Catalogs"
       THEN /\ catalog_index' = Min(catalog_index + 1, SaturatingSub(CatalogsLen, 1))
            /\ UNCHANGED <<book_index, view>>
       ELSE IF CatalogsGet(view.idx)
            THEN IF book_index + 1 >= BooksLen(view.idx) /\ DOMAIN picked # {}
                 THEN /\ view' = ViewCatalogs
                      /\ catalog_index' = CHOOSE i \in DOMAIN picked : \A j \in DOMAIN picked : i <= j
                      /\ UNCHANGED book_index
                 ELSE /\ book_index' = Min(book_index + 1, SaturatingSub(BooksLen(view.idx), 1))
                      /\ UNCHANGED <<catalog_index, view>>
            ELSE UNCHANGED <<book_index, catalog_index, view>>
    /\ UNCHANGED <<catalogs, picked, scroll_x, expanded, outcome>>

KeyDown ==
    /\ outcome = "running"
    /\ key' = "Down"
    /\ IF view.kind = "Catalogs"
       THEN /\ catalog_index' = Min(catalog_index + 1, SaturatingSub(CatalogsLen, 1))
            /\ UNCHANGED book_index
       ELSE /\ IF CatalogsGet(view.idx)
               THEN book_index' = Min(book_index + 1, SaturatingSub(BooksLen(view.idx), 1))
               ELSE UNCHANGED book_index
            /\ UNCHANGED catalog_index
    /\ UNCHANGED <<catalogs, picked, view, scroll_x, expanded, outcome>>

\* KeyLeft scrolling back in the candidate list as well
KeyLeftScrollsInList ==
    /\ outcome = "running"
    /\ key' = "Left"
    /\ scroll_x' = SaturatingSub(scroll_x, 4)
    /\ IF view.kind = "Books"
       THEN BackToCatalogs
       ELSE UNCHANGED <<view, book_index, expanded>>
    /\ UNCHANGED <<catalogs, picked, catalog_index, outcome>>

KeyLeft ==
    /\ outcome = "running"
    /\ key' = "Left"
    /\ IF view.kind = "Books"
       THEN /\ BackToCatalogs
            /\ UNCHANGED scroll_x
       ELSE /\ scroll_x' = SaturatingSub(scroll_x, 4)
            /\ UNCHANGED <<view, book_index, expanded>>
    /\ UNCHANGED <<catalogs, picked, catalog_index, outcome>>

KeyRight ==
    /\ outcome = "running"
    /\ key' = "Right"
    /\ IF view.kind = "Catalogs"
       THEN /\ EnterBooks
            /\ UNCHANGED scroll_x
       ELSE /\ scroll_x < 4 * MaxScroll
            /\ scroll_x' = Min(scroll_x + 4, U16Max)
            /\ UNCHANGED <<view, book_index>>
    /\ UNCHANGED <<catalogs, picked, catalog_index, expanded, outcome>>

\* KeyBigO collapsing as soon as one candidate is expanded
KeyBigOAnyExpanded ==
    /\ outcome = "running"
    /\ key' = "O"
    /\ IF view.kind = "Books" /\ CatalogsGet(view.idx)
       THEN IF expanded # {}
            THEN expanded' = {}
            ELSE expanded' = expanded \cup (0..(BooksLen(view.idx) - 1))
       ELSE UNCHANGED expanded
    /\ UNCHANGED <<catalogs, picked, view, catalog_index, book_index, scroll_x, outcome>>

KeyBigO ==
    /\ outcome = "running"
    /\ key' = "O"
    /\ IF view.kind = "Books" /\ CatalogsGet(view.idx)
       THEN IF Cardinality(expanded) = BooksLen(view.idx)
            THEN expanded' = {}
            ELSE expanded' = expanded \cup (0..(BooksLen(view.idx) - 1))
       ELSE UNCHANGED expanded
    /\ UNCHANGED <<catalogs, picked, view, catalog_index, book_index, scroll_x, outcome>>

\* KeyToggle moving the candidate cursor on after the toggle
KeyToggleAdvances ==
    /\ outcome = "running"
    /\ key' = "o"
    /\ IF view.kind = "Catalogs"
       THEN /\ EnterBooks
            /\ UNCHANGED expanded
       ELSE /\ IF book_index \in expanded
               THEN expanded' = expanded \ {book_index}
               ELSE expanded' = expanded \cup {book_index}
            /\ book_index' = IF CatalogsGet(view.idx)
                             THEN Min(book_index + 1, SaturatingSub(BooksLen(view.idx), 1))
                             ELSE book_index
            /\ UNCHANGED view
    /\ UNCHANGED <<catalogs, picked, catalog_index, scroll_x, outcome>>

KeyToggle ==
    /\ outcome = "running"
    /\ key' = "o"
    /\ IF view.kind = "Catalogs"
       THEN /\ EnterBooks
            /\ UNCHANGED expanded
       ELSE /\ IF book_index \in expanded
               THEN expanded' = expanded \ {book_index}
               ELSE expanded' = expanded \cup {book_index}
            /\ UNCHANGED <<view, book_index>>
    /\ UNCHANGED <<catalogs, picked, catalog_index, scroll_x, outcome>>

\* Mutant of KeyEnter: the confirm ends the loop without asking next_unpicked
KeyEnterAlwaysBreak ==
    /\ outcome = "running"
    /\ key' = "Enter"
    /\ IF view.kind = "Catalogs"
       THEN /\ EnterBooks
            /\ UNCHANGED <<picked, expanded, outcome>>
       ELSE /\ picked' = PickedInsert(picked, view.idx, book_index)
            /\ outcome' = "true"
            /\ UNCHANGED <<view, expanded, book_index>>
    /\ UNCHANGED <<catalogs, catalog_index, scroll_x>>

\* Mutant of KeyEnter: Enter on a resolved catalog of the list removes its pick
KeyEnterUnpick ==
    /\ outcome = "running"
    /\ key' = "Enter"
    /\ IF view.kind = "Catalogs"
       THEN IF catalog_index \in DOMAIN picked
            THEN /\ picked' = [x \in (DOMAIN picked) \ {catalog_index} |-> picked[x]]
                 /\ UNCHANGED <<view, book_index, expanded, outcome>>
            ELSE /\ EnterBooks
                 /\ UNCHANGED <<picked, expanded, outcome>>
       ELSE /\ picked' = PickedInsert(picked, view.idx, book_index)
            /\ IF NextUnpicked(picked', catalogs) = None
               THEN /\ outcome' = "true"
                    /\ UNCHANGED <<view, expanded>>
               ELSE /\ view' = ViewCatalogs
                    /\ expanded' = {}
                    /\ UNCHANGED outcome
            /\ UNCHANGED book_index
    /\ UNCHANGED <<catalogs, scroll_x>>
    /\ UNCHANGED catalog_index

\* Mutant of KeyEnter: the confirm moves the catalog cursor to next_unpicked
KeyEnterAdvance ==
    /\ outcome = "running"
    /\ key' = "Enter"
    /\ IF view.kind = "Catalogs"
       THEN /\ EnterBooks
            /\ UNCHANGED <<picked, expanded, outcome, catalog_index>>
       ELSE /\ picked' = PickedInsert(picked, view.idx, book_index)
            /\ IF NextUnpicked(picked', catalogs) = None
               THEN /\ outcome' = "true"
                    /\ UNCHANGED <<view, expanded, catalog_index>>
               ELSE /\ view' = ViewCatalogs
                    /\ expanded' = {}
                    /\ catalog_index' = Unwrap(NextUnpicked(picked', catalogs))
                    /\ UNCHANGED outcome
            /\ UNCHANGED book_index
    /\ UNCHANGED <<catalogs, scroll_x>>

\* KeyEnter returning to the catalog list after every confirm, the last included
KeyEnterNeverBreaks ==
    /\ outcome = "running"
    /\ key' = "Enter"
    /\ IF view.kind = "Catalogs"
       THEN /\ EnterBooks
            /\ UNCHANGED <<picked, expanded, outcome>>
       ELSE /\ picked' = PickedInsert(picked, view.idx, book_index)
            /\ view' = ViewCatalogs
            /\ expanded' = {}
            /\ UNCHANGED <<outcome, book_index>>
    /\ UNCHANGED <<catalogs, catalog_index, scroll_x>>

KeyEnter ==
    /\ outcome = "running"
    /\ key' = "Enter"
    /\ IF view.kind = "Catalogs"
       THEN /\ EnterBooks
            /\ UNCHANGED <<picked, expanded, outcome>>
       ELSE /\ picked' = PickedInsert(picked, view.idx, book_index)
            /\ IF NextUnpicked(picked', catalogs) = None
               THEN /\ outcome' = "true"
                    /\ UNCHANGED <<view, expanded>>
               ELSE /\ view' = ViewCatalogs
                    /\ expanded' = {}
                    /\ UNCHANGED outcome
            /\ UNCHANGED book_index
    /\ UNCHANGED <<catalogs, catalog_index, scroll_x>>

\* Mutant of KeyEsc: going back from a candidate list discards that catalog's pick
KeyEscDropPick ==
    /\ outcome = "running"
    /\ key' = "Esc"
    /\ IF view.kind = "Books"
       THEN /\ BackToCatalogs
            /\ picked' = [x \in (DOMAIN picked) \ {view.idx} |-> picked[x]]
            /\ UNCHANGED outcome
       ELSE /\ outcome' = "false"
            /\ UNCHANGED <<view, book_index, expanded, picked>>
    /\ UNCHANGED <<catalogs, catalog_index, scroll_x>>

\* Mutant of KeyEsc: Esc breaks the loop in either view
KeyEscAlwaysQuit ==
    /\ outcome = "running"
    /\ key' = "Esc"
    /\ outcome' = "false"
    /\ UNCHANGED <<catalogs, picked, view, catalog_index, book_index, scroll_x, expanded>>

KeyEsc ==
    /\ outcome = "running"
    /\ key' = "Esc"
    /\ IF view.kind = "Books"
       THEN /\ BackToCatalogs
            /\ UNCHANGED outcome
       ELSE /\ outcome' = "false"
            /\ UNCHANGED <<view, book_index, expanded>>
    /\ UNCHANGED <<catalogs, picked, catalog_index, scroll_x>>

\* Mutant of KeyX: x executes whatever the pick table holds
KeyXAlways ==
    /\ outcome = "running"
    /\ key' = "x"
    /\ IF view.kind = "Catalogs"
       THEN outcome' = "true"
       ELSE UNCHANGED outcome
    /\ UNCHANGED <<catalogs, picked, view, catalog_index, book_index, scroll_x, expanded>>

KeyX ==
    /\ outcome = "running"
    /\ key' = "x"
    /\ IF view.kind = "Catalogs" /\ DOMAIN picked # {}
       THEN outcome' = "true"
       ELSE UNCHANGED outcome
    /\ UNCHANGED <<catalogs, picked, view, catalog_index, book_index, scroll_x, expanded>>

\* `_ => {}`: any other key or event
KeyOther ==
    /\ outcome = "running"
    /\ key' = "other"
    /\ UNCHANGED <<catalogs, picked, view, catalog_index, book_index, scroll_x, expanded, outcome>>

SanIdle ==
    /\ s = <<>>
    /\ out = <<>>
    /\ san_pc = "idle"

TagIdle ==
    /\ tag_head = <<>>
    /\ items = <<>>
    /\ prio = <<>>
    /\ errors = <<>>
    /\ parts = <<>>
    /\ tag_pc = "idle"

PathIdle ==
    /\ self = <<>>
    /\ path = <<>>
    /\ path_pc = "idle"

FileIdle ==
    /\ source_tag = <<>>
    /\ to = "Mp3"
    /\ existing = {}
    /\ file_pc = "idle"

UserFree == mode = "free"

Init == AppInit /\ SanIdle /\ TagIdle /\ PathIdle /\ FileIdle /\ UserFree

Next ==
    \/ KeyUp /\ UNCHANGED notAppVars
    \/ KeyDown /\ UNCHANGED notAppVars
    \/ KeyLeft /\ UNCHANGED notAppVars
    \/ KeyRight /\ UNCHANGED notAppVars
    \/ KeyBigO /\ UNCHANGED notAppVars
    \/ KeyToggle /\ UNCHANGED notAppVars
    \/ KeyEnter /\ UNCHANGED notAppVars
    \/ KeyEsc /\ UNCHANGED notAppVars
    \/ KeyX /\ UNCHANGED notAppVars
    \/ KeyOther /\ UNCHANGED notAppVars

Spec == Init /\ [][Next]_vars

\* The selection loop with a user who stops exploring at some point and from
\* then on only works towards a pick for every catalog: in a candidate list
\* they confirm the candidate under the cursor, in the catalog list they open
\* the catalog under the cursor when it has no pick and otherwise move the
\* cursor towards a catalog without one.

\* The catalogs without an entry in the pick table
Unpicked == {i \in 0..(Len(catalogs) - 1) : i \notin DOMAIN picked}

StartConfirming ==
    /\ mode = "free"
    /\ outcome = "running"
    /\ mode' = "confirming"
    /\ UNCHANGED <<appVars, sanVars, tagVars, pathVars, fileVars>>

ConfirmOrOpen ==
    /\ mode = "confirming"
    /\ Unpicked # {}
    /\ view.kind = "Books" \/ catalog_index \in Unpicked
    /\ KeyEnter
    /\ UNCHANGED notAppVars

SeekDown ==
    /\ mode = "confirming"
    /\ view.kind = "Catalogs"
    /\ catalog_index \notin Unpicked
    /\ \E i \in Unpicked : i > catalog_index
    /\ KeyDown
    /\ UNCHANGED notAppVars

SeekUp ==
    /\ mode = "confirming"
    /\ view.kind = "Catalogs"
    /\ catalog_index \notin Unpicked
    /\ Unpicked # {}
    /\ \A i \in Unpicked : i < catalog_index
    /\ KeyUp
    /\ UNCHANGED notAppVars

ConfirmingUser == ConfirmOrOpen \/ SeekDown \/ SeekUp

NextProgress ==
    \/ mode = "free" /\ Next
    \/ StartConfirming
    \/ ConfirmOrOpen
    \/ SeekDown
    \/ SeekUp

\* The loop blocks in event::read() until the next key; the user in
\* "confirming" mode keeps pressing keys.
SpecProgress == Init /\ [][NextProgress]_vars /\ WF_vars(ConfirmingUser)

----------------------------------------------------------------------------
(* sanitize: strings are sequences of one-character strings *)

SpecialChars == {"\\", "/", "<", ">", "?", "*", "|", "\"", ":"}

\* char::is_whitespace, over the characters used here
Whitespace == {" ", "\t"}

IsWhitespace(c) == c \in Whitespace

Alphabet == SpecialChars \cup Whitespace \cup {"a"}

Strings(n) == UNION {[1..k -> Alphabet] : k \in 0..n}

\* Mutant of Map: '*' is kept as it is
MapKeepsStar(c) ==
    CASE c = "\\" -> Some(<<"+">>)
      [] c = "/" -> Some(<<"+">>)
      [] c = "<" -> Some(<<>>)
      [] c = ">" -> Some(<<>>)
      [] c = "?" -> Some(<<>>)
      [] c = "*" -> Some(<<"*">>)
      [] c = "|" -> Some(<<>>)
      [] c = "\"" -> Some(<<>>)
      [] OTHER -> None

\* Mutant of Map: '\' is deleted instead of replaced by '+'
MapDropsBackslash(c) ==
    CASE c = "\\" -> Some(<<>>)
      [] c = "/" -> Some(<<"+">>)
      [] c = "<" -> Some(<<>>)
      [] c = ">" -> Some(<<>>)
      [] c = "?" -> Some(<<>>)
      [] c = "*" -> Some(<<"-">>)
      [] c = "|" -> Some(<<>>)
      [] c = "\"" -> Some(<<>>)
      [] OTHER -> None

\* Mutant of Map: '/' is replaced by '\', itself a character to replace
MapSlashToBackslash(c) ==
    CASE c = "\\" -> Some(<<"+">>)
      [] c = "/" -> Some(<<"\\">>)
      [] c = "<" -> Some(<<>>)
      [] c = ">" -> Some(<<>>)
      [] c = "?" -> Some(<<>>)
      [] c = "*" -> Some(<<"-">>)
      [] c = "|" -> Some(<<>>)
      [] c = "\"" -> Some(<<>>)
      [] OTHER -> None

\* fn map(c: char) -> Option<&'static str>
Map(c) ==
    CASE c = "\\" -> Some(<<"+">>)
      [] c = "/" -> Some(<<"+">>)
      [] c = "<" -> Some(<<>>)
      [] c = ">" -> Some(<<>>)
      [] c = "?" -> Some(<<>>)
      [] c = "*" -> Some(<<"-">>)
      [] c = "|" -> Some(<<>>)
      [] c = "\"" -> Some(<<>>)
      [] OTHER -> None

\* The scan of 'normalize: the 1-based position of the first ':' or mapped
\* character at or after n, 0 when the scan falls through
RECURSIVE Scan(_, _)
Scan(str, n) ==
    IF n > Len(str) THEN 0
    ELSE IF str[n] = ":" \/ IsSome(Map(str[n])) THEN n
    ELSE Scan(str, n + 1)

\* The `while let Some(c) = it.next()` loop: i is the iterator's position in
\* rest, acc is `out`, lastws is `last_whitespace`
RECURSIVE Transform(_, _, _, _)
Transform(rest, i, acc, lastws) ==
    IF i > Len(rest) THEN acc
    ELSE LET c == rest[i]
         IN  IF c = ":"
             THEN IF i + 1 <= Len(rest) /\ IsWhitespace(rest[i + 1])
                  THEN Transform(rest, i + 2, acc \o <<" ", "-", " ">>, lastws)
                  ELSE Transform(rest, i + 1, Append(acc, "-"), lastws)
             ELSE IF IsSome(Map(c))
             THEN Transform(rest, i + 1, acc \o Unwrap(Map(c)), lastws)
             ELSE IF lastws /\ IsWhitespace(c)
             THEN Transform(rest, i + 1, acc, lastws)
             ELSE Transform(rest, i + 1, Append(acc, c), IsWhitespace(c))

\* Mutant of sanitize: no fast path, the whole string goes through the loop
SanitizeNoFastPath(str) == Transform(str, 1, <<>>, FALSE)

\* Mutant of sanitize: the loop runs over the whole string once a special
\* character is found, the part before it included
SanitizeCollapsesPrefix(str) ==
    IF Scan(str, 1) = 0 THEN str
    ELSE Transform(str, 1, <<>>, FALSE)

\* fn sanitize(s: &str) -> Cow<'_, str>
sanitize(str) ==
    LET n == Scan(str, 1)
    IN  IF n = 0 THEN str
        ELSE Transform(SubSeq(str, n, Len(str)), 1, SubSeq(str, 1, n - 1), FALSE)

SanInit ==
    /\ s \in Strings(MaxLen)
    /\ out = <<>>
    /\ san_pc = "call"

SanitizeCall ==
    /\ san_pc = "call"
    /\ out' = sanitize(s)
    /\ san_pc' = "done"
    /\ UNCHANGED s

InitSanitize == AppIdle /\ SanInit /\ TagIdle /\ PathIdle /\ FileIdle /\ UserFree

NextSanitize == SanitizeCall /\ UNCHANGED notSanVars

SpecSanitize == InitSanitize /\ [][NextSanitize]_vars

----------------------------------------------------------------------------
(* Parts::from_path: the priority merge of tag items *)

\* u32::MAX. TLC's integers end at 2^31 - 1, which stands for it here:
\* only its order against the priorities of KeyTable and the parsed numbers matters.
U32Max == 2147483647

I16Min == -32768

I16Max == 32767

\* ItemValue::Text(text)
Text(str) == [kind |-> "Text", text |-> str]

\* ItemValue::Binary(data)
Binary == [kind |-> "Binary"]

\* TagItem
Item(k, v) == [key |-> k, value |-> v]

\* ItemValue::text(): the text of a Text value, None for the other variants
ValueText(v) == IF v.kind = "Text" THEN Some(v.text) ELSE None

\* str::trim
RECURSIVE Trim(_)
Trim(str) ==
    IF str = <<>> THEN str
    ELSE IF IsWhitespace(str[1]) THEN Trim(Tail(str))
    ELSE IF IsWhitespace(str[Len(str)]) THEN Trim(SubSeq(str, 1, Len(str) - 1))
    ELSE str

DigitChars == <<"0", "1", "2", "3", "4", "5", "6", "7", "8", "9">>

IsDigit(c) == \E d \in 1..10 : DigitChars[d] = c

DigitValue(c) == (CHOOSE d \in 1..10 : DigitChars[d] = c) - 1

\* The value of a non-empty run of decimal digits, None for anything else
RECURSIVE DigitsValue(_, _)
DigitsValue(str, acc) ==
    IF str = <<>> THEN acc
    ELSE DigitsValue(Tail(str), 10 * acc + DigitValue(str[1]))

ParseDigits(str) ==
    IF str # <<>> /\ \A i \in 1..Len(str) : IsDigit(str[i])
    THEN Some(DigitsValue(str, 0))
    ELSE None

\* <u32 as FromStr>::from_str(s).ok(): an optional '+', digits, no overflow
FromStrU32(str) ==
    LET body == IF str # <<>> /\ str[1] = "+" THEN Tail(str) ELSE str
        v == ParseDigits(body)
    IN  IF IsSome(v) /\ Unwrap(v) <= U32Max THEN v ELSE None

\* <i16 as FromStr>::from_str(s).ok(): an optional sign, digits, no overflow
FromStrI16(str) ==
    LET signed == str # <<>> /\ str[1] \in {"+", "-"}
        v == ParseDigits(IF signed THEN Tail(str) ELSE str)
        n == IF signed /\ str[1] = "-" THEN 0 - Unwrap(v) ELSE Unwrap(v)
    IN  IF IsSome(v) /\ I16Min <= n /\ n <= I16Max THEN Some(n) ELSE None

DaysInMonth(y, m) ==
    IF m \in {4, 6, 9, 11} THEN 30
    ELSE IF m = 2
    THEN IF (y % 4 = 0 /\ y % 100 # 0) \/ y % 400 = 0 THEN 29 ELSE 28
    ELSE 31

\* s.parse::<jiff::civil::Date>(): a calendar date written YYYY-MM-DD
FromStrDate(str) ==
    IF Len(str) = 10 /\ str[5] = "-" /\ str[8] = "-"
    THEN LET y == ParseDigits(SubSeq(str, 1, 4))
             m == ParseDigits(SubSeq(str, 6, 7))
             d == ParseDigits(SubSeq(str, 9, 10))
         IN  IF /\ IsSome(y) /\ IsSome(m) /\ IsSome(d)
                /\ Unwrap(m) \in 1..12
                /\ Unwrap(d) \in 1..DaysInMonth(Unwrap(y), Unwrap(m))
             THEN Some([year |-> Unwrap(y), month |-> Unwrap(m), day |-> Unwrap(d)])
             ELSE None
    ELSE None

\* fn text(value: &ItemValue) -> Option<&str>
text(v) ==
    IF IsSome(ValueText(v)) /\ Trim(Unwrap(ValueText(v))) # <<>>
    THEN Some(Trim(Unwrap(ValueText(v))))
    ELSE None

\* fn year_like(value: &ItemValue) -> Option<i16>
year_like(v) ==
    IF ~IsSome(ValueText(v)) THEN None
    ELSE LET str == Trim(Unwrap(ValueText(v)))
         IN  IF IsSome(FromStrDate(str)) THEN Some(Unwrap(FromStrDate(str)).year)
             ELSE FromStrI16(str)

\* fn parse<T: FromStr>(value: &ItemValue) -> Option<T>, at T = u32
parse(v) ==
    IF ~IsSome(ValueText(v)) THEN None
    ELSE FromStrU32(Unwrap(ValueText(v)))

Fields == {"year", "album", "artist", "title", "track", "media_type", "disc_number", "disc_total"}

\* The table of the parse! invocation: key -> field, parser, priority
KeyTable ==
    [OriginalReleaseDate |-> [field |-> "year", parser |-> "year_like", priority |-> 1],
     ReleaseDate |-> [field |-> "year", parser |-> "year_like", priority |-> 2],
     Year |-> [field |-> "year", parser |-> "year_like", priority |-> 3],
     RecordingDate |-> [field |-> "year", parser |-> "year_like", priority |-> 4],
     AlbumTitle |-> [field |-> "album", parser |-> "text", priority |-> 1],
     AlbumArtist |-> [field |-> "artist", parser |-> "text", priority |-> 1],
     TrackArtist |-> [field |-> "artist", parser |-> "text", priority |-> 2],
     TrackTitle |-> [field |-> "title", parser |-> "text", priority |-> 1],
     TrackNumber |-> [field |-> "track", parser |-> "parse", priority |-> 1],
     OriginalMediaType |-> [field |-> "media_type", parser |-> "text", priority |-> 1],
     DiscNumber |-> [field |-> "disc_number", parser |-> "parse", priority |-> 1],
     DiscTotal |-> [field |-> "disc_total", parser |-> "parse", priority |-> 1]]

\* $parse(value) of the arm of the item's key
ParseWith(parser, v) ==
    CASE parser = "year_like" -> year_like(v)
      [] parser = "text" -> text(v)
      [] parser = "parse" -> parse(v)

\* Prio::new
PrioNew == [value |-> None, prio |-> U32Max]

\* Mutant of PrioUpdate: an equal priority displaces the value as well
PrioUpdateOnTie(acc, new, p) ==
    IF IsSome(new) /\ p <= acc.prio THEN [value |-> new, prio |-> p] ELSE acc

\* Prio::update
PrioUpdate(acc, new, p) ==
    IF IsSome(new) /\ p < acc.prio THEN [value |-> new, prio |-> p] ELSE acc

\* The items tags are made of
ItemPool ==
    { Item("OriginalReleaseDate", Text(<<"1", "9", "7", "5", "-", "0", "6", "-", "0", "1">>)),
      Item("Year", Text(<<"1", "9", "8", "0">>)),
      Item("Year", Text(<<"1", "9", "9", "9">>)),
      Item("Year", Text(<<"x">>)),
      Item("ReleaseDate", Text(<<" ", "1", "9", "8", "4", " ">>)),
      Item("AlbumArtist", Text(<<"A", "A">>)),
      Item("TrackArtist", Text(<<"T", "A">>)),
      Item("TrackArtist", Text(<<" ">>)),
      Item("AlbumTitle", Text(<<"A", "l">>)),
      Item("TrackTitle", Text(<<"T", "i">>)),
      Item("TrackNumber", Text(<<"5">>)),
      Item("TrackNumber", Text(<<" ", "5", " ">>)),
      Item("DiscNumber", Text(<<"1">>)),
      Item("DiscTotal", Text(<<"2">>)),
      Item("OriginalMediaType", Text(<<"C", "D">>)),
      Item("Comment", Text(<<"z", "z">>)),
      Item("Year", Binary) }

\* A tag that resolves every required field
CompleteTag ==
    << Item("AlbumTitle", Text(<<"A", "l">>)),
      Item("TrackArtist", Text(<<"T", "A">>)),
      Item("TrackTitle", Text(<<"T", "i">>)),
      Item("TrackNumber", Text(<<"5">>)),
      Item("Year", Text(<<"1", "9", "8", "0">>)) >>

TagHeads == {<<>>, CompleteTag}

TagInit ==
    /\ tag_head \in TagHeads
    /\ items = <<>>
    /\ prio = <<>>
    /\ errors \in {<<>>, <<"missing primary tag">>}
    /\ parts = None
    /\ tag_pc = "start"

\* meta.file.primary_tag() is None
TagNoPrimary ==
    /\ tag_pc = "start"
    /\ tag_head = <<>>
    /\ errors' = Append(errors, "missing primary tag")
    /\ parts' = None
    /\ tag_pc' = "done"
    /\ UNCHANGED <<tag_head, items, prio>>

\* $(let mut $name = Prio::new();)*
TagBegin ==
    /\ tag_pc = "start"
    /\ prio' = [f \in Fields |-> PrioNew]
    /\ tag_pc' = "loop"
    /\ UNCHANGED <<tag_head, items, errors, parts>>

\* One iteration of `for item in tag.items()`
TagItem ==
    /\ tag_pc = "loop"
    /\ \E item \in (IF Len(items) < Len(tag_head)
                    THEN {tag_head[Len(items) + 1]}
                    ELSE {i \in ItemPool : Len(items) < Len(tag_head) + MaxItems}) :
          /\ items' = Append(items, item)
          /\ prio' = [f \in Fields |->
                        IF item.key \in DOMAIN KeyTable /\ KeyTable[item.key].field = f
                        THEN PrioUpdate(prio[f],
                                        ParseWith(KeyTable[item.key].parser, item.value),
                                        KeyTable[item.key].priority)
                        ELSE prio[f]]
    /\ UNCHANGED <<tag_head, errors, parts, tag_pc>>

Missing(f, msg) == IF IsSome(prio[f].value) THEN <<>> ELSE <<msg>>

\* The closure `value` with the five required fields chained by `?`, so that
\* the log gets the first missing field only
TagFinishShortCircuit ==
    /\ tag_pc = "loop"
    /\ Len(items) >= Len(tag_head)
    /\ LET all == Missing("year", "missing year")
                    \o Missing("album", "missing album")
                    \o Missing("artist", "missing artist")
                    \o Missing("title", "missing title")
                    \o Missing("track", "missing track number")
       IN  /\ errors' = errors \o (IF all = <<>> THEN <<>> ELSE <<all[1]>>)
           /\ parts' = IF all = <<>>
                       THEN Some([year |-> Unwrap(prio["year"].value),
                                  artist |-> Unwrap(prio["artist"].value),
                                  album |-> Unwrap(prio["album"].value),
                                  track |-> Unwrap(prio["track"].value),
                                  title |-> Unwrap(prio["title"].value),
                                  media_type |-> prio["media_type"].value,
                                  set |-> None])
                       ELSE None
    /\ tag_pc' = "done"
    /\ UNCHANGED <<tag_head, items, prio>>

\* Mutant of TagFinish: the disc pair is treated as a sixth required field
TagFinishDiscRequired ==
    /\ tag_pc = "loop"
    /\ Len(items) >= Len(tag_head)
    /\ LET set == IF IsSome(prio["disc_number"].value) /\ IsSome(prio["disc_total"].value)
                  THEN Some(<<Unwrap(prio["disc_number"].value), Unwrap(prio["disc_total"].value)>>)
                  ELSE None
       IN  /\ errors' = errors \o Missing("year", "missing year")
                               \o Missing("album", "missing album")
                               \o Missing("artist", "missing artist")
                               \o Missing("title", "missing title")
                               \o Missing("track", "missing track number")
                               \o (IF set = None THEN <<"missing disc">> ELSE <<>>)
           /\ parts' =
                IF /\ \A f \in {"year", "artist", "album", "track", "title"} : IsSome(prio[f].value)
                   /\ set # None
                THEN Some([year |-> Unwrap(prio["year"].value),
                           artist |-> Unwrap(prio["artist"].value),
                           album |-> Unwrap(prio["album"].value),
                           track |-> Unwrap(prio["track"].value),
                           title |-> Unwrap(prio["title"].value),
                           media_type |-> prio["media_type"].value,
                           set |-> set])
                ELSE None
    /\ tag_pc' = "done"
    /\ UNCHANGED <<tag_head, items, prio>>

\* The closure `value`, called when tag.items() is exhausted
TagFinish ==
    /\ tag_pc = "loop"
    /\ Len(items) >= Len(tag_head)
    /\ errors' = errors \o Missing("year", "missing year")
                        \o Missing("album", "missing album")
                        \o Missing("artist", "missing artist")
                        \o Missing("title", "missing title")
                        \o Missing("track", "missing track number")
    /\ LET set == IF IsSome(prio["disc_number"].value) /\ IsSome(prio["disc_total"].value)
                  THEN Some(<<Unwrap(prio["disc_number"].value), Unwrap(prio["disc_total"].value)>>)
                  ELSE None
       IN  parts' =
             IF \A f \in {"year", "artist", "album", "track", "title"} : IsSome(prio[f].value)
             THEN Some([year |-> Unwrap(prio["year"].value),
                        artist |-> Unwrap(prio["artist"].value),
                        album |-> Unwrap(prio["album"].value),
                        track |-> Unwrap(prio["track"].value),
                        title |-> Unwrap(prio["title"].value),
                        media_type |-> prio["media_type"].value,
                        set |-> set])
             ELSE None
    /\ tag_pc' = "done"
    /\ UNCHANGED <<tag_head, items, prio>>

InitTags == AppIdle /\ SanIdle /\ TagInit /\ PathIdle /\ FileIdle /\ UserFree

NextTags ==
    \/ TagNoPrimary /\ UNCHANGED notTagVars
    \/ TagBegin /\ UNCHANGED notTagVars
    \/ TagItem /\ UNCHANGED notTagVars
    \/ TagFinish /\ UNCHANGED notTagVars

SpecTags == InitTags /\ [][NextTags]_vars

----------------------------------------------------------------------------
(* Claims about the selection loop, checked under Spec *)

(* Parts::append_to (crates/audiovert/src/meta.rs) *)

\* The largest disc number and disc total of a record
MaxDisc == 2

\* Display of an unsigned integer: its decimal digits
RECURSIVE FmtNat(_)
FmtNat(n) ==
    IF n < 10 THEN <<DigitChars[n + 1]>>
    ELSE Append(FmtNat(n \div 10), DigitChars[(n % 10) + 1])

\* "{}" of an i16
FmtInt(n) == IF n < 0 THEN <<"-">> \o FmtNat(0 - n) ELSE FmtNat(n)

\* "{:02}" of a u32: padded with zeros to two digits, never cut
FmtPad2(n) == IF n < 10 THEN <<"0">> \o FmtNat(n) ELSE FmtNat(n)

\* PathBuf::push of a relative segment: an empty segment adds no component
\* to the path (only a trailing separator)
PathPush(p, seg) == IF seg = <<>> THEN p ELSE Append(p, seg)

push_sanitized(p, str) == PathPush(p, sanitize(str))

\* The strings and numbers the records are drawn from
Artists == {<<"P", "i", "n", "k", " ", "F", "l", "o", "y", "d">>, <<"A", "/", "B">>, <<"?">>}

Albums == {<<"T", "h", "e", " ", "W", "a", "l", "l">>, <<"X", ":", " ", "Y">>}

Titles == {<<"M", "o", "t", "h", "e", "r">>}

MediaTypes == {None, Some(<<"C", "D">>)}

Sets == {None} \cup {Some(<<n, total>>) : n \in 0..MaxDisc, total \in 0..MaxDisc}

PartsPool ==
    [year : {1979, 0 - 5}, artist : Artists, album : Albums, track : {5, 123},
     title : Titles, media_type : MediaTypes, set : Sets]

PathInit ==
    /\ self \in PartsPool
    /\ path \in {<<>>, <<<<"o", "u", "t">>>>}
    /\ path_pc = "call"

\* The third segment: media type and disc number, for a set of several discs
DiscSegment(p) ==
    IF IsSome(self.set) /\ Unwrap(self.set)[2] > 1
    THEN push_sanitized(p, (IF IsSome(self.media_type)
                            THEN Unwrap(self.media_type) \o <<" ">>
                            ELSE <<>>) \o FmtPad2(Unwrap(self.set)[1]))
    ELSE p

AppendTo ==
    /\ path_pc = "call"
    /\ LET p1 == push_sanitized(path, self.artist)
           p2 == push_sanitized(p1, self.album \o <<" ", "(">> \o FmtInt(self.year) \o <<")">>)
           p3 == DiscSegment(p2)
       IN  path' = push_sanitized(p3, self.artist \o <<" ", "-", " ">> \o self.album
                                        \o <<" ", "-", " ">> \o FmtPad2(self.track)
                                        \o <<" ", "-", " ">> \o self.title)
    /\ path_pc' = "done"
    /\ UNCHANGED self

InitPath == AppIdle /\ SanIdle /\ TagIdle /\ PathInit /\ FileIdle /\ UserFree

NextPath == AppendTo /\ UNCHANGED notPathVars

SpecPath == InitPath /\ [][NextPath]_vars

----------------------------------------------------------------------------

(* Meta::tag_file (crates/audiovert/src/meta.rs) *)

\* The number of items of the source tag
MaxTagItems == 2

TagTypes == {"Id3v2", "VorbisComments", "Ape", "Mp4Ilst"}

Formats == {"Aac", "Flac", "Mp3", "Ogg", "Wav"}

format_file_type(format) ==
    CASE format = "Aac" -> "Aac"
      [] format = "Flac" -> "Flac"
      [] format = "Mp3" -> "Mpeg"
      [] format = "Ogg" -> "Vorbis"
      [] format = "Wav" -> "Wav"

\* FileType::primary_tag_type of the tag library, for the file types above
primary_tag_type(file_type) ==
    IF file_type \in {"Flac", "Vorbis"} THEN "VorbisComments" ELSE "Id3v2"

\* TagItem::re_map of the tag library: whether the key of the item has a
\* representation in the tag type. ItemKey::Unknown has none in any type,
\* the popularimeter only in ID3v2.
ReMap(item, tag_type) ==
    /\ item.key # "Unknown"
    /\ item.key = "Popularimeter" => tag_type = "Id3v2"

\* Tag::new
TagNew(tag_type) == [tag_type |-> tag_type, items |-> <<>>]

\* Tag::insert of the tag library: an item without a representation is
\* skipped, any other replaces the items of its key
TagInsert(tag, item) ==
    IF ReMap(item, tag.tag_type)
    THEN [tag EXCEPT !.items = Append(SelectSeq(@, LAMBDA i : i.key # item.key), item)]
    ELSE tag

\* for item in source_tag.items() { tag.insert(item.clone()); }
RECURSIVE InsertAll(_, _, _)
InsertAll(tag, its, k) ==
    IF k > Len(its) THEN tag ELSE InsertAll(TagInsert(tag, its[k]), its, k + 1)

\* TaggedFile::insert_tag: the tag takes the place of a tag of its type
InsertTag(tags, tag) == {x \in tags : x.tag_type # tag.tag_type} \cup {tag}

\* The items the source tag is built from
SourceItems ==
    {Item("TrackTitle", Text(<<"T", "i">>)), Item("TrackTitle", Text(<<"T", "2">>)),
     Item("AlbumTitle", Text(<<"A", "l">>)), Item("Popularimeter", Binary),
     Item("Unknown", Text(<<"z", "z">>))}

\* The items a freshly transcoded target starts with
OldItems == <<Item("EncoderSoftware", Text(<<"o", "l", "d">>)), Item("TrackTitle", Text(<<"o", "l", "d">>))>>

RECURSIVE ItemSeqs(_)
ItemSeqs(n) ==
    IF n = 0 THEN {<<>>}
    ELSE ItemSeqs(n - 1) \cup {Append(q, i) : q \in ItemSeqs(n - 1), i \in SourceItems}

\* The tags the probe reads from a target of the format: none, or a tag of
\* the primary type, and for an MP3 possibly an APE tag besides
ProbedTags(format) ==
    LET primary == {{}} \cup {{[tag_type |-> primary_tag_type(format_file_type(format)),
                                items |-> SubSeq(OldItems, 1, n)]} : n \in 1..2}
        other == IF format = "Mp3"
                 THEN {{}, {[tag_type |-> "Ape", items |-> SubSeq(OldItems, 1, 1)]}}
                 ELSE {{}}
    IN  {p \cup o : p \in primary, o \in other}

FileInit ==
    /\ source_tag \in {None} \cup {Some([tag_type |-> t, items |-> q]) :
                                      t \in TagTypes, q \in ItemSeqs(MaxTagItems)}
    /\ to \in Formats
    /\ existing \in ProbedTags(to)
    /\ file_pc = "call"

\* let Some(source_tag) = self.file.primary_tag() else { return Ok(()) }
TagFileNoPrimary ==
    /\ file_pc = "call"
    /\ source_tag = None
    /\ file_pc' = "done"
    /\ UNCHANGED <<source_tag, to, existing>>

\* tag_file with the fallback filling the tag the target had before
TagFileKeepsOld ==
    /\ file_pc = "call"
    /\ IsSome(source_tag)
    /\ LET src == Unwrap(source_tag)
           tag_type == primary_tag_type(format_file_type(to))
           old == IF \E x \in existing : x.tag_type = tag_type
                  THEN CHOOSE x \in existing : x.tag_type = tag_type
                  ELSE TagNew(tag_type)
       IN  existing' = IF src.tag_type = tag_type
                       THEN InsertTag({}, src)
                       ELSE InsertTag({}, InsertAll(old, src.items, 1))
    /\ file_pc' = "done"
    /\ UNCHANGED <<source_tag, to>>

\* tag_file for a source with a primary tag: probe, clear, insert, save
TagFile ==
    /\ file_pc = "call"
    /\ IsSome(source_tag)
    /\ LET src == Unwrap(source_tag)
           tag_type == primary_tag_type(format_file_type(to))
           cleared == {}
       IN  existing' = IF src.tag_type = tag_type
                       THEN InsertTag(cleared, src)
                       ELSE InsertTag(cleared, InsertAll(TagNew(tag_type), src.items, 1))
    /\ file_pc' = "done"
    /\ UNCHANGED <<source_tag, to>>

InitFile == AppIdle /\ SanIdle /\ TagIdle /\ PathIdle /\ FileInit /\ UserFree

NextFile ==
    \/ TagFileNoPrimary /\ UNCHANGED notFileVars
    \/ TagFile /\ UNCHANGED notFileVars

SpecFile == InitFile /\ [][NextFile]_vars

----------------------------------------------------------------------------

\* The catalogs without an entry in the pick table p
Unresolved(p) == {i \in 0..(Len(catalogs) - 1) : i \notin DOMAIN p}

\* The catalog the cursor is on: the viewed one in a candidate list, the
\* one under the catalog cursor in the catalog list
CursorCatalog == IF view.kind = "Books" THEN view.idx ELSE catalog_index

\* A catalog set as a scan produces it: not empty, every catalog with a book
NoEmptyList == catalogs # <<>> /\ \A i \in 1..Len(catalogs) : catalogs[i] > 0

\* C1 (as stated): whenever the loop ends with the success outcome, every
\* catalog of the set has an entry in the pick table. (Stated for catalog
\* sets without an empty list, where it fails all the same.)
C1_SuccessResolvesAll ==
    (NoEmptyList /\ outcome = "true") => Unresolved(picked) = {}

\* C1 (amended): a success reached by the confirm (Enter) leaves no catalog
\* unresolved; a success reached by the execute input x only guarantees a
\* non-empty pick table. The table is a map, so no catalog has two picks.
C1_SuccessByConfirmResolvesAll ==
    /\ (outcome = "true" /\ key = "Enter") => Unresolved(picked) = {}
    /\ (outcome = "true" /\ key = "x") => DOMAIN picked # {}
    /\ outcome = "true" => key \in {"Enter", "x"}

C1_Witness ==
    /\ NoEmptyList
    /\ outcome = "true"
    /\ key = "Enter"
    /\ Len(catalogs) >= 2
    /\ DOMAIN picked = 0..(Len(catalogs) - 1)

\* C2: the pick table changes only in a confirm (Enter) made in a candidate
\* list; that step sets the viewed catalog's entry to the candidate under
\* the cursor and leaves every other entry as it was; every other key event
\* leaves the table unchanged.
C2_PickTableFrame ==
    [][IF key' = "Enter" /\ view.kind = "Books"
       THEN /\ DOMAIN picked' = (DOMAIN picked) \cup {view.idx}
            /\ picked'[view.idx] = book_index
            /\ \A k \in (DOMAIN picked) \ {view.idx} : picked'[k] = picked[k]
       ELSE picked' = picked]_vars

C2_Witness ==
    /\ key = "Enter"
    /\ view.kind = "Books"
    /\ outcome = "true"
    /\ picked[view.idx] = 1
    /\ \E k \in (DOMAIN picked) \ {view.idx} : picked[k] = 0

\* C3 (as stated): a confirm (Enter) on a previously resolved catalog n
\* removes n's entry from the pick table and leaves the active catalog
\* unchanged. (Stated for catalog sets without an empty list.)
C3_ConfirmOnResolvedRemoves ==
    [][(NoEmptyList /\ key' = "Enter" /\ outcome = "running"
            /\ CursorCatalog \in DOMAIN picked)
          => (CursorCatalog \notin DOMAIN picked' /\ catalog_index' = catalog_index)]_vars

\* C3 (amended): a confirm (Enter) on a previously resolved catalog n never
\* removes n's entry: in the catalog list it opens n's candidate list with the
\* cursor on the recorded pick and leaves the pick table as it was, in n's
\* candidate list it overwrites n's entry with the candidate under the
\* cursor; in both cases the active catalog is unchanged.
C3_ConfirmOnResolvedKeeps ==
    [][(key' = "Enter" /\ outcome = "running" /\ CursorCatalog \in DOMAIN picked)
          => /\ CursorCatalog \in DOMAIN picked'
             /\ catalog_index' = catalog_index
             /\ IF view.kind = "Catalogs"
                THEN /\ picked' = picked
                     /\ view' = ViewBooks(catalog_index)
                     /\ book_index' = picked[catalog_index]
                ELSE picked'[view.idx] = book_index]_vars

C3_Witness ==
    /\ key = "Enter"
    /\ outcome = "running"
    /\ view.kind = "Books"
    /\ view.idx \in DOMAIN picked
    /\ book_index = picked[view.idx]
    /\ book_index = 1

\* C4 (as stated): after a confirm on a candidate of catalog N while another
\* catalog is still unresolved, the catalog under the catalog cursor is the
\* next catalog without an entry in the pick table. (Stated for catalog sets
\* without an empty list.)
C4_ConfirmAdvances ==
    [][(NoEmptyList /\ key' = "Enter" /\ outcome = "running" /\ view.kind = "Books"
            /\ Unresolved(picked') # {})
          => /\ catalog_index' \in Unresolved(picked')
             /\ catalog_index' = Unwrap(NextUnpicked(picked', catalogs))]_vars

\* C4 (amended): after a confirm on a candidate of catalog N while another
\* catalog is still unresolved, the loop returns to the catalog list with the
\* catalog cursor still on N, which now has an entry; the cursor is not moved
\* to an unresolved catalog.
C4_ConfirmStaysOnCatalog ==
    [][(key' = "Enter" /\ outcome = "running" /\ view.kind = "Books"
            /\ Unresolved(picked') # {})
          => /\ view' = ViewCatalogs
             /\ catalog_index' = catalog_index
             /\ catalog_index' = view.idx
             /\ catalog_index' \in DOMAIN picked'
             /\ outcome' = "running"]_vars

C4_Witness ==
    /\ NoEmptyList
    /\ key = "Enter"
    /\ view.kind = "Catalogs"
    /\ outcome = "running"
    /\ catalog_index \in DOMAIN picked
    /\ Unresolved(picked) # {}
    /\ \E i \in Unresolved(picked) : i > catalog_index

\* C5 (as stated): a quit input (Esc or q) in any state of the loop ends it
\* with the quit outcome. (Stated for catalog sets without an empty list.)
C5_QuitAlwaysEnds ==
    [][(NoEmptyList /\ key' = "Esc" /\ outcome = "running") => outcome' = "false"]_vars

\* C5 (amended): a quit input (Esc or q) ends the loop with the quit outcome
\* when the cursor is in the catalog list; in a candidate list it returns to
\* the catalog list (candidate cursor 0, nothing expanded, pick table
\* untouched) and the loop goes on.
C5_QuitEndsInCatalogList ==
    [][(key' = "Esc" /\ outcome = "running")
          => IF view.kind = "Catalogs"
             THEN outcome' = "false"
             ELSE /\ outcome' = "running"
                  /\ view' = ViewCatalogs
                  /\ book_index' = 0
                  /\ expanded' = {}
                  /\ picked' = picked]_vars

C5_Witness ==
    /\ NoEmptyList
    /\ key = "Esc"
    /\ outcome = "false"
    /\ view.kind = "Catalogs"
    /\ DOMAIN picked # {}
    /\ Unresolved(picked) # {}

\* C6: every pick-table entry refers to an existing catalog and holds an
\* index smaller than that catalog's number of books (catalogs with zero
\* books and an empty catalog set included).
C6_PickTableValid ==
    \A i \in DOMAIN picked : i < Len(catalogs) /\ picked[i] < catalogs[i + 1]

----------------------------------------------------------------------------
(* Claims about sanitize, checked under SpecSanitize *)

HasSpecial(str) == \E i \in 1..Len(str) : str[i] \in SpecialChars

\* C7: for an input that contains none of \ / < > ? * | " : the result of
\* sanitize is exactly the input (whitespace runs are not collapsed).
C7_PlainInputUnchanged ==
    (san_pc = "done" /\ ~HasSpecial(s)) => out = s

C7_Witness ==
    /\ san_pc = "done"
    /\ s = <<"a", " ", " ">>
    /\ out = s

\* C8: sanitize returns a result for every input, and the result contains
\* none of the special characters \ / < > ? * | " :
C8_ResultHasNoSpecial ==
    /\ san_pc = "call" => ENABLED SanitizeCall
    /\ san_pc = "done" => ~HasSpecial(out)

C8_Witness ==
    /\ san_pc = "done"
    /\ s = <<"/", ":", "*">>
    /\ out = <<"+", "-", "-">>

\* The first special character of str, found by its definition
FirstSpecial(str) ==
    CHOOSE n \in 1..Len(str) :
        str[n] \in SpecialChars /\ \A k \in 1..(n - 1) : str[k] \notin SpecialChars

\* A whitespace character right after a colon is consumed with the colon
Consumed(str, i) == i > 1 /\ str[i - 1] = ":" /\ str[i] \in Whitespace

\* What the character at position i of str is replaced by
Replacement(str, i) ==
    IF Consumed(str, i) THEN <<>>
    ELSE IF str[i] \in {"\\", "/"} THEN <<"+">>
    ELSE IF str[i] = "*" THEN <<"-">>
    ELSE IF str[i] \in {"<", ">", "?", "|", "\""} THEN <<>>
    ELSE IF str[i] = ":"
    THEN IF i < Len(str) /\ str[i + 1] \in Whitespace
         THEN <<" ", "-", " ">>
         ELSE <<"-">>
    ELSE <<str[i]>>

\* The replacements of positions i..Len(str), the positions of D dropped
RECURSIVE Replaced(_, _, _)
Replaced(str, i, D) ==
    IF i > Len(str) THEN <<>>
    ELSE (IF i \in D THEN <<>> ELSE Replacement(str, i)) \o Replaced(str, i + 1, D)

\* The ordinary whitespace characters from position n on (those a collapsed
\* run may lose)
OrdinaryWhitespace(str, n) ==
    {i \in n..Len(str) : str[i] \in Whitespace /\ ~Consumed(str, i)}

\* C9: from the first special character onward every \ and / becomes +,
\* every * becomes -, every < > ? | " is deleted, a colon followed by a
\* whitespace character becomes " - " and takes that character with it, any
\* other colon becomes -; nothing else changes but for dropped whitespace.
\* sanitize("A/B") = "A+B", sanitize("Unknown: Title") = "Unknown - Title",
\* sanitize("10:30") = "10-30".
C9_SpecialsReplaced ==
    /\ (san_pc = "done" /\ HasSpecial(s)) =>
          LET n == FirstSpecial(s)
          IN  \E D \in SUBSET OrdinaryWhitespace(s, n) :
                 out = SubSeq(s, 1, n - 1) \o Replaced(s, n, D)
    /\ sanitize(<<"A", "/", "B">>) = <<"A", "+", "B">>
    /\ sanitize(<<"U", "n", "k", "n", "o", "w", "n", ":", " ", "T", "i", "t", "l", "e">>)
          = <<"U", "n", "k", "n", "o", "w", "n", " ", "-", " ", "T", "i", "t", "l", "e">>
    /\ sanitize(<<"1", "0", ":", "3", "0">>) = <<"1", "0", "-", "3", "0">>

C9_Witness ==
    /\ san_pc = "done"
    /\ s = <<":", " ", "\\">>
    /\ out = <<" ", "-", " ", "+">>

----------------------------------------------------------------------------
(* Claims about the tag resolver, checked under SpecTags *)

\* The parsed value and the priority of item i for field f; None for an item
\* whose key is not mapped to f or whose value is rejected
Accepted(i, f) ==
    IF items[i].key \in DOMAIN KeyTable /\ KeyTable[items[i].key].field = f
    THEN ParseWith(KeyTable[items[i].key].parser, items[i].value)
    ELSE None

\* The item the resolver must settle on for field f: accepted, of the best
\* priority, and the earliest among those
Winner(i, f) ==
    /\ IsSome(Accepted(i, f))
    /\ \A j \in 1..Len(items) :
          IsSome(Accepted(j, f)) =>
             \/ KeyTable[items[i].key].priority < KeyTable[items[j].key].priority
             \/ (KeyTable[items[i].key].priority = KeyTable[items[j].key].priority /\ i <= j)

Year1980 == Item("Year", Text(<<"1", "9", "8", "0">>))

Year1999 == Item("Year", Text(<<"1", "9", "9", "9">>))

Released1975 == Item("OriginalReleaseDate", Text(<<"1", "9", "7", "5", "-", "0", "6", "-", "0", "1">>))

\* C10: when all items have been processed, each field holds the parsed value
\* of the accepted item of the best (lowest) priority, the earliest-seen one
\* among equals; rejected items displace nothing, and a field without an
\* accepted item is unresolved. Year="1980" with
\* OriginalReleaseDate="1975-06-01" resolves the year to 1975 in either order.
C10_BestPriorityWins ==
    tag_pc = "done" /\ prio # <<>> =>
       /\ \A f \in Fields :
             IF \E i \in 1..Len(items) : IsSome(Accepted(i, f))
             THEN \E i \in 1..Len(items) :
                     Winner(i, f) /\ prio[f].value = Accepted(i, f)
             ELSE prio[f].value = None
       /\ items \in {<<Year1980, Released1975>>, <<Released1975, Year1980>>}
             => prio["year"].value = Some(1975)

C10_Witness ==
    /\ tag_pc = "done"
    /\ items = <<Year1999, Year1980, Released1975>>
    /\ prio["year"].value = Some(1975)
    /\ prio["year"].prio = 1

\* The five fields a record needs, each with the line logged when it is missing
RequiredMissing ==
    [year |-> "missing year", album |-> "missing album", artist |-> "missing artist",
     title |-> "missing title", track |-> "missing track number"]

\* The required fields no item of the tag resolves
UnresolvedRequired ==
    {f \in DOMAIN RequiredMissing : ~ \E i \in 1..Len(items) : IsSome(Accepted(i, f))}

\* C11: for a file with a primary tag, the step that ends from_path returns a
\* record exactly when all five required fields resolved and nothing
\* otherwise; in both cases it leaves the earlier log entries in place and
\* appends exactly one "missing <field>" line for each unresolved required
\* field, each of the five checked on its own. A file lacking track number
\* and title yields nothing, with exactly "missing track number" and
\* "missing title" added.
C11_MissingFieldsLogged ==
    [][(tag_pc = "loop" /\ tag_pc' = "done") =>
          /\ IsSome(parts') <=> UnresolvedRequired = {}
          /\ Len(errors') = Len(errors) + Cardinality(UnresolvedRequired)
          /\ SubSeq(errors', 1, Len(errors)) = errors
          /\ {errors'[k] : k \in (Len(errors) + 1)..Len(errors')}
                = {RequiredMissing[f] : f \in UnresolvedRequired}
          /\ UnresolvedRequired = {"track", "title"} =>
                /\ parts' = None
                /\ SubSeq(errors', Len(errors) + 1, Len(errors'))
                      \in {<<"missing title", "missing track number">>,
                           <<"missing track number", "missing title">>}]_vars

C11_Witness ==
    /\ tag_pc = "done"
    /\ prio # <<>>
    /\ UnresolvedRequired = {"track", "title"}
    /\ parts = None
    /\ errors = <<"missing primary tag", "missing title", "missing track number">>

----------------------------------------------------------------------------
(* Claims about the path layout, checked under SpecPath *)

\* The segments append_to added to the path
Appended == SubSeq(path', Len(path) + 1, Len(path'))

\* The disc pair is present with a total above 1
SeveralDiscs == IsSome(self.set) /\ Unwrap(self.set)[2] > 1

\* The text of the disc segment: the media type and a space when a media type
\* is present, then the disc number padded to two digits
DiscText ==
    (IF IsSome(self.media_type) THEN Unwrap(self.media_type) \o <<" ">> ELSE <<>>)
       \o FmtPad2(Unwrap(self.set)[1])

\* The text of the last segment
TrackText ==
    self.artist \o <<" ", "-", " ">> \o self.album \o <<" ", "-", " ">>
       \o FmtPad2(self.track) \o <<" ", "-", " ">> \o self.title

\* C12: append_to leaves the path it is given in place and appends, in this
\* order, the sanitized artist, the sanitized "{album} ({year})", the
\* sanitized disc segment exactly when the disc pair is present with a total
\* above 1, and the sanitized "{artist} - {album} - {track:02} - {title}":
\* exactly 4 segments when the disc total is above 1 and exactly 3 otherwise.
C12_SegmentsAppended ==
    [][path_pc = "call" /\ path_pc' = "done" =>
          /\ SubSeq(path', 1, Len(path)) = path
          /\ Len(Appended) = IF SeveralDiscs THEN 4 ELSE 3
          /\ Appended[1] = sanitize(self.artist)
          /\ Appended[2] = sanitize(self.album \o <<" ", "(">> \o FmtInt(self.year) \o <<")">>)
          /\ SeveralDiscs => Appended[3] = sanitize(DiscText)
          /\ Appended[Len(Appended)] = sanitize(TrackText)]_vars

----------------------------------------------------------------------------
(* Claims about the tag transplant, checked under SpecFile *)

\* The target's native tag type
NativeType == primary_tag_type(format_file_type(to))

\* The items of the tags of the native type in a set of tags
NativeItems(tags) ==
    {i \in UNION {{x.items[k] : k \in 1..Len(x.items)} : x \in tags} :
        \E x \in tags : x.tag_type = NativeType /\ \E k \in 1..Len(x.items) : x.items[k] = i}

\* The items of the source tag
SourceSet == {Unwrap(source_tag).items[k] : k \in 1..Len(Unwrap(source_tag).items)}

\* C13: after tag_file for a source with a primary tag, the target holds one
\* tag, of its native type. When the source tag is of that type, the items of
\* the target are exactly the items of the source, in the same order; when
\* the types differ, every item of the target is an item of the source with
\* a representation in the native type, so its key existed in the source. In
\* both cases an item of the target's previous tag is there only if the
\* source holds it too.
C13_TransplantedItems ==
    [][file_pc = "call" /\ file_pc' = "done" /\ IsSome(source_tag) =>
          /\ \A x \in existing' : x.tag_type = NativeType
          /\ Cardinality(existing') = 1
          /\ IF Unwrap(source_tag).tag_type = NativeType
             THEN \A x \in existing' : x.items = Unwrap(source_tag).items
             ELSE /\ NativeItems(existing') \subseteq SourceSet
                  /\ \A i \in NativeItems(existing') :
                        /\ ReMap(i, NativeType)
                        /\ \E j \in SourceSet : j.key = i.key
          /\ \A k \in 1..Len(OldItems) :
                OldItems[k] \in NativeItems(existing') => OldItems[k] \in SourceSet]_vars

C13_Witness ==
    /\ file_pc = "done"
    /\ to = "Flac"
    /\ IsSome(source_tag)
    /\ Unwrap(source_tag).tag_type = "Id3v2"
    /\ \E j \in SourceSet : j.key = "Popularimeter"
    /\ \E j \in SourceSet : j.key = "TrackTitle"
    /\ Cardinality(NativeItems(existing)) = 1
    /\ \A i \in NativeItems(existing) : i.key = "TrackTitle" /\ i \notin {OldItems[2]}

----------------------------------------------------------------------------
(* Further claims about the selection loop, checked under Spec *)

\* The cursor is on the last candidate of the viewed catalog
OnLastCandidate ==
    /\ view.kind = "Books"
    /\ CatalogsGet(view.idx)
    /\ book_index = SaturatingSub(BooksLen(view.idx), 1)

\* The smallest catalog with an entry in the pick table
SmallestResolved == CHOOSE i \in DOMAIN picked : \A j \in DOMAIN picked : i <= j

\* C14 (as stated): a move-down with the cursor on the last candidate of the
\* active catalog puts the cursor on the smallest-numbered resolved entry when
\* the pick table is not empty, and leaves it on the candidate only when the
\* table is empty. (Stated for catalog sets without an empty list.)
C14_DownOnLastWraps ==
    [][(NoEmptyList /\ key' = "Down" /\ OnLastCandidate) =>
          IF DOMAIN picked # {}
          THEN view' = ViewCatalogs /\ catalog_index' = SmallestResolved
          ELSE view' = view /\ book_index' = book_index]_vars

\* C14 (amended): a move-down with the cursor on the last candidate of the
\* viewed catalog leaves the cursor on that candidate whether or not the pick
\* table is empty; the view, the catalog cursor and the pick table are
\* unchanged.
C14_DownOnLastStays ==
    [][(key' = "Down" /\ OnLastCandidate) =>
          /\ book_index' = book_index
          /\ view' = view
          /\ catalog_index' = catalog_index
          /\ picked' = picked
          /\ outcome' = "running"]_vars

C14_Witness ==
    /\ NoEmptyList
    /\ key = "Down"
    /\ view.kind = "Books"
    /\ BooksLen(view.idx) = 1
    /\ book_index = 0
    /\ DOMAIN picked # {}

\* The step opens the candidate list of the catalog under the catalog cursor
EntersList == view.kind = "Catalogs" /\ view'.kind = "Books"

C16_ExpandInputsFrame ==
    [][(NoEmptyList /\ key' \in {"o", "O"}) =>
          /\ view' = view
          /\ catalog_index' = catalog_index
          /\ book_index' = book_index
          /\ picked' = picked]_vars

\* C16 (amended): O in every state, and space or o in a candidate list,
\* change at most the set of expanded candidates: view, catalog cursor,
\* candidate cursor, pick table and scroll offset are unchanged and the loop
\* goes on. Space or o in the catalog list opens the candidate list of the
\* catalog under the catalog cursor, as Enter does there, with the candidate
\* cursor on the recorded pick or 0, and leaves the expanded set, the catalog
\* cursor and the pick table unchanged.
C16_ExpandInputsInList ==
    [][(key' \in {"o", "O"}) =>
          /\ catalog_index' = catalog_index
          /\ picked' = picked
          /\ scroll_x' = scroll_x
          /\ outcome' = "running"
          /\ IF key' = "o" /\ view.kind = "Catalogs"
             THEN /\ view' = ViewBooks(catalog_index)
                  /\ book_index' = PickedOrZero(catalog_index)
                  /\ expanded' = expanded
             ELSE /\ view' = view
                  /\ book_index' = book_index]_vars

C16_Witness ==
    /\ NoEmptyList
    /\ key = "o"
    /\ view.kind = "Books"
    /\ book_index = 1
    /\ expanded = {1}
    /\ view.idx \notin DOMAIN picked

\* The candidates of the viewed catalog
Candidates == 0..(BooksLen(view.idx) - 1)

\* C17: in the candidate list of a catalog, after the O input no candidate of
\* the catalog is expanded if every candidate was expanded before, and every
\* candidate is expanded otherwise, whatever toggles and cursor moves came
\* before and whatever the length of the list.
C17_ToggleAll ==
    [][(key' = "O" /\ view.kind = "Books" /\ CatalogsGet(view.idx)) =>
          IF Candidates \subseteq expanded
          THEN expanded' \cap Candidates = {}
          ELSE Candidates \subseteq expanded']_vars

C17_Witness ==
    /\ key = "O"
    /\ view.kind = "Books"
    /\ CatalogsGet(view.idx)
    /\ BooksLen(view.idx) = 2
    /\ book_index = 1
    /\ expanded = {}

\* C18 (as stated): the left/h and right/l inputs only adjust the horizontal
\* scroll offset in every state: left decreases it saturating at 0, right
\* increases it, and neither changes the view, the catalog cursor, the
\* candidate cursor, the expansion set or the pick table. (Stated for catalog
\* sets without an empty list.)
C18_ScrollOnly ==
    [][(NoEmptyList /\ key' \in {"Left", "Right"}) =>
          /\ scroll_x' = IF key' = "Left" THEN SaturatingSub(scroll_x, 4) ELSE scroll_x + 4
          /\ view' = view
          /\ catalog_index' = catalog_index
          /\ book_index' = book_index
          /\ expanded' = expanded
          /\ picked' = picked]_vars

\* C18 (amended): left/h adjusts the scroll offset only in the catalog list,
\* where it decreases it by 4 saturating at 0 and changes nothing else; in a
\* candidate list it goes back to the catalog list (candidate cursor 0,
\* nothing expanded) and leaves the offset alone. Right/l adjusts the offset
\* only in a candidate list, where it increases it by 4 saturating at the
\* largest u16 and changes nothing else; in the catalog list it opens the
\* candidate list of the catalog under the cursor and leaves the offset
\* alone. Neither changes the catalog cursor or the pick table.
C18_ScrollByView ==
    [][(key' \in {"Left", "Right"}) =>
          /\ catalog_index' = catalog_index
          /\ picked' = picked
          /\ outcome' = "running"
          /\ (key' = "Left" /\ view.kind = "Catalogs") =>
                /\ scroll_x' = SaturatingSub(scroll_x, 4)
                /\ view' = view /\ book_index' = book_index /\ expanded' = expanded
          /\ (key' = "Left" /\ view.kind = "Books") =>
                /\ scroll_x' = scroll_x
                /\ view' = ViewCatalogs /\ book_index' = 0 /\ expanded' = {}
          /\ (key' = "Right" /\ view.kind = "Books") =>
                /\ scroll_x' = Min(scroll_x + 4, U16Max)
                /\ view' = view /\ book_index' = book_index /\ expanded' = expanded
          /\ (key' = "Right" /\ view.kind = "Catalogs") =>
                /\ scroll_x' = scroll_x
                /\ view' = ViewBooks(catalog_index)
                /\ book_index' = PickedOrZero(catalog_index)
                /\ expanded' = expanded]_vars

C18_Witness ==
    /\ NoEmptyList
    /\ key = "Left"
    /\ view.kind = "Catalogs"
    /\ book_index = 1
    /\ scroll_x = 0

----------------------------------------------------------------------------
(* Forward progress of the selection loop, checked under SpecProgress *)

\* C19: from every reachable state of the loop that has not ended, over a
\* catalog set that is not empty and with a catalog still unresolved, a user
\* who from then on keeps confirming a candidate for each unresolved catalog
\* eventually ends the loop with the success outcome; and a confirm in a
\* candidate list ends the loop, with true, exactly when it leaves no catalog
\* unresolved, so that no earlier confirm ends it.
C19_ForwardProgress ==
    /\ (mode = "confirming" /\ outcome = "running" /\ catalogs # <<>> /\ Unpicked # {})
          ~> (outcome = "true" /\ Unpicked = {})
    /\ [][(key' = "Enter" /\ mode' = mode /\ view.kind = "Books" /\ outcome = "running") =>
             /\ outcome' = "true" <=> Unresolved(picked') = {}
             /\ outcome' \in {"running", "true"}]_vars

C19_Witness ==
    /\ NoEmptyList
    /\ mode = "confirming"
    /\ outcome = "true"
    /\ key = "Enter"
    /\ Len(catalogs) = 2
    /\ DOMAIN picked = {0, 1}
    /\ catalog_index = 0
    /\ view = ViewBooks(0)

----------------------------------------------------------------------------
(* A further claim about sanitize, checked under SpecSanitize *)

\* The transform phase as the claim describes it, from position i of str on,
\* acc being what the phase has emitted so far: an ordinary whitespace
\* character is dropped exactly when the character emitted last is whitespace
RECURSIVE Collapsed(_, _, _)
Collapsed(str, i, acc) ==
    IF i > Len(str) THEN acc
    ELSE IF Consumed(str, i) THEN Collapsed(str, i + 1, acc)
    ELSE IF str[i] \in Whitespace
    THEN IF acc # <<>> /\ acc[Len(acc)] \in Whitespace
         THEN Collapsed(str, i + 1, acc)
         ELSE Collapsed(str, i + 1, Append(acc, str[i]))
    ELSE Collapsed(str, i + 1, acc \o Replacement(str, i))

\* No whitespace character of q is followed by another
NoAdjacentWhitespace(q) ==
    \A k \in 1..(Len(q) - 1) : ~(q[k] \in Whitespace /\ q[k + 1] \in Whitespace)

\* C20: from the first special character onward, an ordinary whitespace
\* character is dropped exactly when the output character emitted right
\* before it is whitespace and is emitted otherwise; so the part of the
\* output produced from the first special character onward has no two
\* adjacent whitespace characters, also next to an emitted " - " or next to a
\* replaced or deleted special character.
C20_WhitespaceCollapsed ==
    (san_pc = "done" /\ HasSpecial(s)) =>
       LET n == FirstSpecial(s)
       IN  /\ out = SubSeq(s, 1, n - 1) \o Collapsed(s, n, <<>>)
           /\ NoAdjacentWhitespace(SubSeq(out, n, Len(out)))

----------------------------------------------------------------------------
(* Further claims about sanitize, checked under SpecSanitize *)

\* C21: for an input with a special character, the part of the input before
\* the first special character is a verbatim prefix of the result: whitespace
\* runs before the first special character are never collapsed, even when
\* runs after it are. sanitize("a  b/c  d") = "a  b+c d".
C21_PrefixVerbatim ==
    /\ (san_pc = "done" /\ HasSpecial(s)) =>
          LET n == FirstSpecial(s)
          IN  /\ Len(out) >= n - 1
              /\ SubSeq(out, 1, n - 1) = SubSeq(s, 1, n - 1)
    /\ sanitize(<<"a", " ", " ", "b", "/", "c", " ", " ", "d">>)
          = <<"a", " ", " ", "b", "+", "c", " ", "d">>

C21_Witness ==
    /\ san_pc = "done"
    /\ s = <<" ", "\t", "/">>
    /\ out = <<" ", "\t", "+">>

----------------------------------------------------------------------------
(* Further claims about the tag resolver, checked under SpecTags *)

NumericFields == {"track", "disc_number", "disc_total"}

\* The number item i gives field f when the trimmed text of its value is
\* parsed as an unsigned integer; None when the key is not mapped to f, the
\* value is not text or the trimmed text is not an integer
TrimmedNumber(i, f) ==
    IF /\ items[i].key \in DOMAIN KeyTable
       /\ KeyTable[items[i].key].field = f
       /\ IsSome(ValueText(items[i].value))
    THEN FromStrU32(Trim(Unwrap(ValueText(items[i].value))))
    ELSE None

\* C22: track number, disc number and disc total are extracted by parsing the
\* trimmed text of the item as an unsigned integer: each field ends with the
\* number of the earliest item whose trimmed text is an integer (" 5 " gives
\* 5), items that are not an integer after trimming displace nothing, and a
\* field without such an item is unresolved.
C22_NumericTrimmed ==
    (tag_pc = "done" /\ prio # <<>>) =>
       \A f \in NumericFields :
          LET ok == {i \in 1..Len(items) : IsSome(TrimmedNumber(i, f))}
          IN  IF ok = {} THEN prio[f].value = None
              ELSE prio[f].value = TrimmedNumber(CHOOSE i \in ok : \A j \in ok : i <= j, f)

\* Some item of the tag resolves field f
Resolves(f) == \E i \in 1..Len(items) : IsSome(Accepted(i, f))

\* The value of the earliest item accepted for field f
FirstAccepted(f) ==
    Unwrap(Accepted(CHOOSE i \in 1..Len(items) :
                       /\ IsSome(Accepted(i, f))
                       /\ \A j \in 1..(i - 1) : ~IsSome(Accepted(j, f)), f))

\* C23: the step that ends from_path returns a record exactly when the five
\* required fields resolved, whatever the disc items; the disc pair of the
\* record is present exactly when both disc number and disc total resolved,
\* and then holds those two numbers; and every line the step appends to the
\* log is one of the five "missing <field>" lines, none about the disc.
C23_DiscPairOptional ==
    [][(tag_pc = "loop" /\ tag_pc' = "done") =>
          /\ IsSome(parts') <=> UnresolvedRequired = {}
          /\ IsSome(parts') =>
                IF Resolves("disc_number") /\ Resolves("disc_total")
                THEN Unwrap(parts').set
                        = Some(<<FirstAccepted("disc_number"), FirstAccepted("disc_total")>>)
                ELSE Unwrap(parts').set = None
          /\ \A k \in (Len(errors) + 1)..Len(errors') :
                errors'[k] \in {RequiredMissing[f] : f \in DOMAIN RequiredMissing}]_vars

C23_Witness ==
    /\ tag_pc = "done"
    /\ IsSome(parts)
    /\ Unwrap(parts).set = None
    /\ Resolves("disc_number")
    /\ ~Resolves("disc_total")
    /\ errors = <<>>

----------------------------------------------------------------------------
(* A further claim about the selection loop, checked under Spec *)

\* C24: whenever the loop has ended with the success outcome, by the confirm
\* that resolves the last catalog or by the execute input x, the pick table
\* holds at least one entry; x ends the loop, with true, only in the catalog
\* list with a pick table that is not empty, and in the catalog list with an
\* empty table or in a candidate list it changes nothing.
C24_SuccessHasPick ==
    /\ [](outcome = "true" => (DOMAIN picked # {} /\ key \in {"Enter", "x"}))
    /\ [][key' = "x" =>
             /\ IF view.kind = "Catalogs" /\ DOMAIN picked # {}
                THEN outcome' = "true"
                ELSE outcome' = "running"
             /\ UNCHANGED <<catalogs, picked, view, catalog_index, book_index,
                            scroll_x, expanded>>]_vars

C24_Witness ==
    /\ NoEmptyList
    /\ outcome = "true"
    /\ key = "x"
    /\ view.kind = "Catalogs"
    /\ Cardinality(DOMAIN picked) = 1
    /\ Len(catalogs) = 2

----------------------------------------------------------------------------
(* A last claim about sanitize, checked under SpecSanitize *)

\* C25: sanitize is idempotent: applied to its own result it returns that
\* result, for every input.
C25_Idempotent ==
    san_pc = "done" => (out = sanitize(s) /\ sanitize(out) = out)

C25_Witness ==
    /\ san_pc = "done"
    /\ s = <<":", " ", " ">>
    /\ out = <<" ", "-", " ", " ">>
    /\ sanitize(out) = out

====
